---- MODULE Spec2Model ----
(***************************************************************************)
(* Model of the invoice generation subsystem of servicemate (src/app.py):  *)
(* invoice numbering, invoice pricing, invoice creation as a sequence of   *)
(* separately committed statements, and the payment ledger's upsert.       *)
(*                                                                         *)
(* Money is an integer number of thousandths of a rupee, so that a         *)
(* requested discount with three fractional digits can be told apart from  *)
(* its value in a DECIMAL(10,2) column.  An optional value (Python None,   *)
(* SQL NULL) is the empty tuple, a present value v is <<v>>.               *)
(***************************************************************************)
EXTENDS Integers, Sequences, FiniteSets, TLC

\* ------------------------------------------------------------ bounds
\* Number of concurrent create_invoice requests.
MaxRequests == 2
\* Number of rows the leads table may receive.
MaxLeads == 1
\* Number of month boundaries the UTC clock may cross.
MaxMonths == 1
\* Number of INSERT statements record_payment may run.
MaxPayments == 3
\* Number of times the document of a stored invoice may be rendered again.
MaxRenders == 1
\* Number of concurrent requests and process starts that touch plans.
MaxPlanRequests == 3
\* Number of concurrent get_logo_image calls.
MaxLogoCalls == 3
\* Number of seconds the clock may advance within one part of a month.
MaxSeconds == 1

\* ------------------------------------------------------------ values
None == <<>>
Some(v) == <<v>>
IsNone(o) == o = <<>>
Val(o) == o[1]

\* DEFAULT_SETUP_FEE = Decimal("3000"), in thousandths.
DEFAULT_SETUP_FEE == 3000000
\* basic_price = Decimal("1999.00"), in thousandths.
basic_price == 1999000

Abs(x) == IF x < 0 THEN -x ELSE x

\* A value as a DECIMAL(10,2) column keeps it: rounded half away from zero
\* to a whole number of hundredths (still written in thousandths).
Round2(x) == LET q == ((Abs(x) + 5) \div 10) * 10 IN IF x < 0 THEN -q ELSE q

\* as_decimal: None becomes Decimal("0"), anything else its exact value.
as_decimal(o) == IF IsNone(o) THEN 0 ELSE Val(o)

\* ------------------------------------------------------------ numbering
DigitChar(d) ==
    CASE d = 0 -> "0" [] d = 1 -> "1" [] d = 2 -> "2" [] d = 3 -> "3"
      [] d = 4 -> "4" [] d = 5 -> "5" [] d = 6 -> "6" [] d = 7 -> "7"
      [] d = 8 -> "8" [] d = 9 -> "9"

RECURSIVE Decimal(_)
\* str(n) for n >= 0: the decimal digits, most significant first.
Decimal(n) == IF n < 10 THEN <<DigitChar(n)>>
              ELSE Decimal(n \div 10) \o <<DigitChar(n % 10)>>

RECURSIVE ZeroPad(_, _)
\* format(n, "0<w>d"): zeros on the left up to width w, never a truncation.
ZeroPad(s, w) == IF Len(s) >= w THEN s ELSE ZeroPad(<<"0">> \o s, w)

\* today.strftime("INV%Y%m")
Prefix(now) == <<"I", "N", "V">> \o ZeroPad(Decimal(now.year), 4)
                                 \o ZeroPad(Decimal(now.month), 2)

\* Mutant of SeqField: the sequence padded to three digits.
SeqField_Width3(seq) == ZeroPad(Decimal(seq), 3)

\* f"{seq:04d}"
SeqField(seq) == ZeroPad(Decimal(seq), 4)

\* invoice_number LIKE '<prefix>%'
Like(number, prefix) ==
    /\ Len(number) >= Len(prefix)
    /\ SubSeq(number, 1, Len(prefix)) = prefix

\* Mutant of CountLike: the COUNT(*) without its WHERE clause.
CountLike_AllRows(rows, prefix) == Cardinality(rows)

\* SELECT COUNT(*) FROM invoices WHERE invoice_number LIKE '<prefix>%'
CountLike(rows, prefix) ==
    Cardinality({row \in rows : Like(row.invoice_number, prefix)})

\* The number built from the clock and the COUNT(*) the statement returned.
InvoiceNumberFor(now, count) == Prefix(now) \o SeqField(count + 1)

next_invoice_number(rows, now) ==
    InvoiceNumberFor(now, CountLike(rows, Prefix(now)))

\* ------------------------------------------------------------ pricing
\* Mutant of SetupDiscount: the clamp of a negative discount left out.
SetupDiscount_NoFloor(requested, fee) ==
    IF as_decimal(requested) > fee THEN fee ELSE as_decimal(requested)

\* setup_discount after the two clamps of create_invoice.
SetupDiscount(requested, fee) ==
    LET d0 == as_decimal(requested)
        d1 == IF d0 < 0 THEN 0 ELSE d0
    IN  IF d1 > fee THEN fee ELSE d1

\* The amounts create_invoice computes, before they reach the store.
Price(plan_price, fee, requested) ==
    LET d   == SetupDiscount(requested, fee)
        net == fee - d
    IN  [plan_price         |-> plan_price,
         setup_fee_amount   |-> fee,
         setup_fee_discount |-> d,
         setup_fee_net      |-> net,
         subtotal           |-> plan_price + net,
         tax                |-> 0,
         total              |-> plan_price + net]

\* ------------------------------------------------------------ state
VARIABLES
    now,            \* the UTC clock: [year, month]
    leads,          \* rows of the leads table
    nextLeadId,     \* AUTO_INCREMENT of leads
    plans,          \* rows of the plans table
    invoices,       \* rows of the invoices table
    nextInvoiceId,  \* AUTO_INCREMENT of invoices
    files,          \* names of the documents in INVOICE_PDF_DIR
    issued,         \* history: every invoice_number an INSERT has stored
    req,            \* per create_invoice request: its position and locals
    lead_payments,  \* rows of the lead_payments table
    nextPaymentId,  \* AUTO_INCREMENT of lead_payments
    payResp,        \* the last record_payment request and its response
    recorded,       \* history: per (lead, month) the last payment applied
    probe,          \* a function under test: its inputs and its result
    documents,      \* per file of INVOICE_PDF_DIR: how often it was written
    nextPlanId,     \* AUTO_INCREMENT of plans
    planReq,        \* per plans request: its position and locals
    LOGO_CACHE,     \* the dict of get_logo_image: key -> image or None
    logoCall,       \* per get_logo_image call: its position and locals
    tod,            \* the UTC clock within its month: [late, second]
    time_zone       \* the session time zone of the store, once it matters

vars == <<now, leads, nextLeadId, plans, invoices, nextInvoiceId, files,
          issued, req, lead_payments, nextPaymentId, payResp, recorded,
          probe, documents, nextPlanId, planReq, LOGO_CACHE, logoCall, tod,
          time_zone>>

invoiceVars == <<invoices, nextInvoiceId, files, documents, issued, req>>
planVars == <<plans, nextPlanId, planReq>>
paymentVars == <<lead_payments, nextPaymentId, payResp, recorded>>
logoVars == <<LOGO_CACHE, logoCall>>
zoneVars == <<tod, time_zone>>

Requests == 1..MaxRequests
LogoCalls == 1..MaxLogoCalls
PlanRequests == 1..MaxPlanRequests

\* What a create_invoice request may carry as lead_id: absent, zero, the
\* first lead's id, an id no lead ever has.
LeadIdInputs == {None, Some(0), Some(1), Some(MaxLeads + 1)}
\* ... as plan_id: absent, the seeded plan's id, an id no plan has.
PlanIdInputs == {None, Some(1), Some(2)}
\* ... as setup_discount: absent, or half a hundredth of a rupee.
DiscountInputs == {None, Some(5)}
PhoneInputs == {None, Some("9000000001")}

IdleRequest ==
    [pc |-> "idle", lead_id |-> None, plan_id |-> None, requested |-> None,
     plan_price |-> None, amounts |-> None, invoice_number |-> None,
     generated_at |-> None, pdf_url |-> None, allocations |-> 0,
     why |-> "none"]

NoPayment ==
    [status |-> 0, lead_id |-> 0, billing_month |-> None, amount |-> None,
     paid_on |-> None, payment_method |-> None, note |-> None]

NoProbe == [fn |-> "none"]

\* INVOICE_PDF_DIR before any document is written.
NoDocuments == [name \in {} |-> 0]

\* A plans request that has not started.
IdlePlanRequest ==
    [pc |-> "idle", kind |-> "none", name |-> "", price |-> 0,
     basic |-> None, basic_plan |-> None, ret |-> "none", why |-> "none"]

\* The clock at process start.
StartClock == [year |-> 2025, month |-> 12]

\* The clock within a month: late is the last five and a half hours of the
\* UTC month, when the month of Asia/Kolkata (IST, line 74) is already the
\* next one; second counts the seconds passed within that part.
StartOfMonth == [late |-> FALSE, second |-> 0]

\* LOGO_CACHE = {} (line 78).
EmptyCache == [key \in {} |-> None]

\* A get_logo_image call that has not started.
IdleLogoCall ==
    [pc |-> "idle", key |-> "", cached |-> None, ret |-> None, loads |-> 0]

\* seed_plans on an empty plans table: DELETE FROM plans, then INSERT Basic.
SeededPlans ==
    {[id |-> 1, name |-> "Basic", price |-> basic_price, is_active |-> 1]}

InitStore ==
    /\ now = StartClock
    /\ leads = {}
    /\ nextLeadId = 1
    /\ plans = SeededPlans
    /\ invoices = {}
    /\ nextInvoiceId = 1
    /\ files = {}
    /\ issued = {}
    /\ req = [r \in Requests |-> IdleRequest]
    /\ lead_payments = {}
    /\ nextPaymentId = 1
    /\ payResp = NoPayment
    /\ recorded = {}
    /\ documents = NoDocuments
    /\ nextPlanId = 2
    /\ planReq = [r \in PlanRequests |-> IdlePlanRequest]
    /\ LOGO_CACHE = EmptyCache
    /\ logoCall = [c \in LogoCalls |-> IdleLogoCall]
    /\ tod = StartOfMonth
    /\ time_zone = None

Init == InitStore /\ probe = NoProbe

\* ------------------------------------------------------------ clock
NextMonth(clock) ==
    IF clock.month = 12 THEN [year |-> clock.year + 1, month |-> 1]
    ELSE [year |-> clock.year, month |-> clock.month + 1]

\* datetime.utcnow() moves into the next month.
Tick ==
    /\ (now.year - StartClock.year) * 12 + now.month - StartClock.month
         < MaxMonths
    /\ now' = NextMonth(now)
    /\ tod' = StartOfMonth
    /\ UNCHANGED <<leads, nextLeadId, planVars, invoiceVars, paymentVars,
                   probe, logoVars, time_zone>>

\* The clock moves into the next second.
TickSecond ==
    /\ tod.second < MaxSeconds
    /\ tod' = [tod EXCEPT !.second = @ + 1]
    /\ UNCHANGED <<now, leads, nextLeadId, planVars, invoiceVars, paymentVars,
                   probe, logoVars, time_zone>>

\* MySQL's time_zone session variable is not set by the program (lines
\* 29-39 connect with host, user, password and database only): it is the
\* server's, UTC or the zone of the machine.
SessionZones == {"UTC", "Asia/Kolkata"}

\* The clock moves into the last hours of the UTC month.  From here on the
\* zone of the store's session shows in what CURRENT_TIMESTAMP reads back
\* as; it is one of SessionZones, the same for the whole run.
Dusk(zone) ==
    /\ ~tod.late
    /\ time_zone \in {None, Some(zone)}
    /\ tod' = [late |-> TRUE, second |-> 0]
    /\ time_zone' = Some(zone)
    /\ UNCHANGED <<now, leads, nextLeadId, planVars, invoiceVars, paymentVars,
                   probe, logoVars>>

\* What a SELECT returns for a TIMESTAMP column that was set to
\* CURRENT_TIMESTAMP at this instant: the naive date and time of the
\* session's zone, to the second.
CURRENT_TIMESTAMP ==
    LET local == IF tod.late /\ time_zone = Some("Asia/Kolkata")
                 THEN NextMonth(now) ELSE now
    IN  [year |-> local.year, month |-> local.month, late |-> tod.late,
         second |-> tod.second]

\* ------------------------------------------------------------ leads
\* Python truthiness: None is falsy, and so are the number 0 and the text "".
TruthyNumber(o) == ~IsNone(o) /\ Val(o) # 0
TruthyText(o) == ~IsNone(o) /\ Val(o) # ""

\* POST /leads: a phone is required; the INSERT takes the next id.
create_lead(phone) ==
    /\ nextLeadId <= MaxLeads
    /\ IF ~TruthyText(phone)
       THEN UNCHANGED <<leads, nextLeadId>>
       ELSE /\ leads' = leads \cup {[id |-> nextLeadId, phone |-> Val(phone)]}
            /\ nextLeadId' = nextLeadId + 1
    /\ UNCHANGED <<now, planVars, invoiceVars, paymentVars, probe,
                   logoVars, zoneVars>>

LeadExists(id) == \E l \in leads : l.id = id
PlanExists(id) == \E p \in plans : p.id = id
PlanRow(id) == CHOOSE p \in plans : p.id = id

\* ------------------------------------------------------------ create_invoice
\* Mutant of UniqueNumber: the column without its UNIQUE key.
UniqueNumber_NoKey(rows, number) == TRUE

\* The UNIQUE key on invoices.invoice_number admits the row.
UniqueNumber(rows, number) == \A row \in rows : row.invoice_number # number

\* The foreign keys of invoices (lead_id, plan_id) admit the row.
ForeignKeysHold(lead_id, plan_id) == LeadExists(lead_id) /\ PlanExists(plan_id)

\* The row the INSERT of create_invoice stores: every amount as its
\* DECIMAL(10,2) column keeps it, generated_at = CURRENT_TIMESTAMP,
\* pdf_url NULL.
InvoiceRow(id, r) ==
    [id                 |-> id,
     lead_id            |-> Val(r.lead_id),
     plan_id            |-> Val(r.plan_id),
     invoice_number     |-> Val(r.invoice_number),
     subtotal           |-> Round2(r.amounts.subtotal),
     tax                |-> Round2(r.amounts.tax),
     total              |-> Round2(r.amounts.total),
     setup_fee_amount   |-> Round2(r.amounts.setup_fee_amount),
     setup_fee_discount |-> Round2(r.amounts.setup_fee_discount),
     setup_fee_net      |-> Round2(r.amounts.setup_fee_net),
     generated_at       |-> CURRENT_TIMESTAMP,
     notes              |-> None,
     pdf_url            |-> None]

\* fetch_invoice_details: the invoice joined to its lead and its plan.
fetch_invoice_details(number) ==
    {row \in invoices : /\ row.invoice_number = number
                        /\ LeadExists(row.lead_id)
                        /\ PlanExists(row.plan_id)}

\* Mutant of PdfName: the file named after the time of the rendering.
PdfName_Now(generated_at, lead_id) == [ts |-> now, lead_id |-> lead_id]

\* generate_invoice_pdf names the file INV_<generated_at>_<lead_id>.pdf.
PdfName(generated_at, lead_id) == [ts |-> generated_at, lead_id |-> lead_id]

\* Line 1297: "if not lead_id or not plan_id" is the 400.
PayloadOk(lead_id, plan_id) == TruthyNumber(lead_id) /\ TruthyNumber(plan_id)

\* Mutant of LeadAndPlanFound: only the plan is looked at.
LeadAndPlanFound_PlanOnly(plan_price, lead_id) == ~IsNone(plan_price)

\* Line 1302: "if not plan or not lead" is the 400.
LeadAndPlanFound(plan_price, lead_id) ==
    ~IsNone(plan_price) /\ LeadExists(lead_id)

\* Mutant of InsertRefused: a refused INSERT goes back to the allocation.
InsertRefused_Retry(r, unique) == [r EXCEPT !.pc = "priced"]

\* The request after its INSERT raised: no handler catches the error, the
\* request ends in a 500.
InsertRefused(r, unique) ==
    [r EXCEPT !.pc = "failed",
              !.why = IF unique THEN "foreign_key" ELSE "duplicate"]

\* Lines 1294-1300: the payload check, then SELECT ... FROM plans.
ci_begin(r, lead_id, plan_id, requested) ==
    /\ req[r].pc = "idle"
    \* requests are numbered in their order of arrival
    /\ \A q \in Requests : q < r => req[q].pc # "idle"
    /\ IF ~PayloadOk(lead_id, plan_id)
       THEN req' = [req EXCEPT ![r].pc = "rejected", ![r].why = "missing"]
       ELSE req' = [req EXCEPT
                ![r].pc = "plan_read",
                ![r].lead_id = lead_id,
                ![r].plan_id = plan_id,
                ![r].requested = requested,
                ![r].plan_price =
                    IF PlanExists(Val(plan_id))
                    THEN Some(PlanRow(Val(plan_id)).price) ELSE None]
    /\ UNCHANGED <<now, leads, nextLeadId, planVars, invoices, nextInvoiceId,
                   files, documents, issued, paymentVars, probe,
                   logoVars, zoneVars>>

\* Lines 1301-1319: SELECT ... FROM leads, the 400 for an unknown lead or
\* plan, then the amounts.
ci_price(r) ==
    /\ req[r].pc = "plan_read"
    /\ IF ~LeadAndPlanFound(req[r].plan_price, Val(req[r].lead_id))
       THEN req' = [req EXCEPT ![r] = [IdleRequest EXCEPT
                        !.pc = "rejected", !.why = "invalid"]]
       ELSE req' = [req EXCEPT
                ![r].pc = "priced",
                ![r].amounts = Price(Val(req[r].plan_price),
                                     DEFAULT_SETUP_FEE, req[r].requested)]
    /\ UNCHANGED <<now, leads, nextLeadId, planVars, invoices, nextInvoiceId,
                   files, documents, issued, paymentVars, probe,
                   logoVars, zoneVars>>

\* Line 1321: next_invoice_number(), one SELECT COUNT(*).
ci_allocate(r) ==
    /\ req[r].pc = "priced"
    /\ req' = [req EXCEPT
            ![r].pc = "numbered",
            ![r].invoice_number = Some(next_invoice_number(invoices, now)),
            ![r].allocations = @ + 1]
    /\ UNCHANGED <<now, leads, nextLeadId, planVars, invoices, nextInvoiceId,
                   files, documents, issued, paymentVars, probe,
                   logoVars, zoneVars>>

\* Lines 1323-1351: the INSERT.  A row the constraints refuse raises out of
\* execute(): the request ends in a 500 and the id it drew is not reused.
ci_insert(r) ==
    /\ req[r].pc = "numbered"
    /\ nextInvoiceId' = nextInvoiceId + 1
    /\ IF /\ UniqueNumber(invoices, Val(req[r].invoice_number))
          /\ ForeignKeysHold(Val(req[r].lead_id), Val(req[r].plan_id))
       THEN /\ invoices' = invoices \cup {InvoiceRow(nextInvoiceId, req[r])}
            /\ issued' = issued \cup {Val(req[r].invoice_number)}
            /\ req' = [req EXCEPT ![r].pc = "inserted"]
       ELSE /\ req' = [req EXCEPT ![r] = InsertRefused(req[r],
                        UniqueNumber(invoices, Val(req[r].invoice_number)))]
            /\ UNCHANGED <<invoices, issued>>
    /\ UNCHANGED <<now, leads, nextLeadId, planVars, files, documents,
                   paymentVars, probe,
                   logoVars, zoneVars>>

\* Lines 1353-1357: the re-read; no row is a 500.
ci_fetch(r) ==
    /\ req[r].pc = "inserted"
    /\ LET found == fetch_invoice_details(Val(req[r].invoice_number))
       IN  IF found = {}
           THEN req' = [req EXCEPT ![r].pc = "failed", ![r].why = "not_found"]
           ELSE req' = [req EXCEPT
                    ![r].pc = "fetched",
                    ![r].generated_at =
                        Some((CHOOSE row \in found : TRUE).generated_at)]
    /\ UNCHANGED <<now, leads, nextLeadId, planVars, invoices, nextInvoiceId,
                   files, documents, issued, paymentVars, probe,
                   logoVars, zoneVars>>

\* canvas.Canvas(path) ... save(): the file at the path is written anew,
\* whatever the path held before.
SavePdf(docs, name) ==
    [n \in DOMAIN docs \cup {name} |->
        IF n = name
        THEN (IF name \in DOMAIN docs THEN docs[name] + 1 ELSE 1)
        ELSE docs[n]]

\* Line 1358: generate_invoice_pdf writes the document.
ci_render(r) ==
    /\ req[r].pc = "fetched"
    /\ LET name == PdfName(Val(req[r].generated_at), Val(req[r].lead_id))
       IN  /\ files' = files \cup {name}
           /\ documents' = SavePdf(documents, name)
           /\ req' = [req EXCEPT ![r].pc = "rendered",
                                 ![r].pdf_url = Some(name)]
    /\ UNCHANGED <<now, leads, nextLeadId, planVars, invoices, nextInvoiceId,
                   issued, paymentVars, probe,
                   logoVars, zoneVars>>

\* Mutant of AttachPdf: the UPDATE without its WHERE clause.
AttachPdf_AllRows(rows, number, pdf_url) ==
    {[row EXCEPT !.pdf_url = pdf_url] : row \in rows}

\* UPDATE invoices SET pdf_url = %s WHERE invoice_number = %s
AttachPdf(rows, number, pdf_url) ==
    {IF row.invoice_number = number
     THEN [row EXCEPT !.pdf_url = pdf_url] ELSE row
     : row \in rows}

\* Mutant of ci_update_pdf: the pointer stored before the rendering.
ci_update_pdf_BeforeRender(r) ==
    /\ req[r].pc = "fetched"
    /\ LET name == PdfName(Val(req[r].generated_at), Val(req[r].lead_id))
       IN  /\ invoices' = AttachPdf(invoices, Val(req[r].invoice_number),
                                    Some(name))
           /\ req' = [req EXCEPT ![r].pc = "done",
                                 ![r].pdf_url = Some(name)]
    /\ UNCHANGED <<now, leads, nextLeadId, planVars, nextInvoiceId, files,
                   documents, issued, paymentVars, probe,
                   logoVars, zoneVars>>

\* Lines 1359-1366: the UPDATE of pdf_url, then the 201.
ci_update_pdf(r) ==
    /\ req[r].pc = "rendered"
    /\ invoices' = AttachPdf(invoices, Val(req[r].invoice_number),
                             req[r].pdf_url)
    /\ req' = [req EXCEPT ![r].pc = "done"]
    /\ UNCHANGED <<now, leads, nextLeadId, planVars, nextInvoiceId, files,
                   documents, issued, paymentVars, probe,
                   logoVars, zoneVars>>

create_invoice(r) ==
    \/ \E lead_id \in LeadIdInputs, plan_id \in PlanIdInputs,
          requested \in DiscountInputs :
            ci_begin(r, lead_id, plan_id, requested)
    \/ ci_price(r)
    \/ ci_allocate(r)
    \/ ci_insert(r)
    \/ ci_fetch(r)
    \/ ci_render(r)
    \/ ci_update_pdf(r)

\* ------------------------------------------------------------ specification
Next ==
    \/ Tick
    \/ \E phone \in PhoneInputs : create_lead(phone)
    \/ \E r \in Requests : create_invoice(r)

Spec == Init /\ [][Next]_vars

\* ------------------------------------------------------------ record_payment
\* lead_id comes from the URL path.
PaymentLeadInputs == 1..(MaxLeads + 1)
BillingMonthInputs == {None, Some("2025-11-01"), Some("2025-12-01")}
\* amount: absent, zero, 500.00, 750.005
AmountInputs == {None, Some(0), Some(500000), Some(750005)}
\* paid_on, payment_method and note: all absent, or all given.
DetailInputs ==
    {[paid_on |-> None, payment_method |-> None, note |-> None],
     [paid_on |-> Some("2025-11-07"), payment_method |-> Some("UPI"),
      note |-> Some("advance")]}

\* Mutant of PaymentPayloadOk: only the billing month is required.
PaymentPayloadOk_MonthOnly(billing_month, amount) == TruthyText(billing_month)

\* Line 1120: "if not billing_month or not amount" is the 400.
PaymentPayloadOk(billing_month, amount) ==
    TruthyText(billing_month) /\ TruthyNumber(amount)

SamePair(row, lead_id, month) ==
    row.lead_id = lead_id /\ row.billing_month = month

\* Mutant of UpsertPayment: a plain INSERT, no key on (lead_id, billing_month).
UpsertPayment_Append(rows, id, lead_id, month, amount, d) ==
    rows \cup {[id |-> id, lead_id |-> lead_id, invoice_id |-> None,
                billing_month |-> month, amount |-> Round2(amount),
                paid_on |-> d.paid_on, payment_method |-> d.payment_method,
                note |-> d.note]}

\* Mutant of UpsertPayment: a field the request omits keeps its old value.
UpsertPayment_KeepOmitted(rows, id, lead_id, month, amount, d) ==
    IF \E row \in rows : SamePair(row, lead_id, month)
    THEN {IF SamePair(row, lead_id, month)
          THEN [row EXCEPT
                  !.amount = Round2(amount),
                  !.paid_on = IF IsNone(d.paid_on) THEN @ ELSE d.paid_on,
                  !.payment_method =
                      IF IsNone(d.payment_method) THEN @ ELSE d.payment_method,
                  !.note = IF IsNone(d.note) THEN @ ELSE d.note]
          ELSE row : row \in rows}
    ELSE UpsertPayment_Append(rows, id, lead_id, month, amount, d)

\* INSERT INTO lead_payments ... ON DUPLICATE KEY UPDATE amount, paid_on,
\* payment_method, note: one statement under the key lead_month_unique.
UpsertPayment(rows, id, lead_id, month, amount, d) ==
    IF \E row \in rows : SamePair(row, lead_id, month)
    THEN {IF SamePair(row, lead_id, month)
          THEN [row EXCEPT !.amount = Round2(amount),
                           !.paid_on = d.paid_on,
                           !.payment_method = d.payment_method,
                           !.note = d.note]
          ELSE row : row \in rows}
    ELSE rows \cup {[id |-> id, lead_id |-> lead_id, invoice_id |-> None,
                     billing_month |-> month, amount |-> Round2(amount),
                     paid_on |-> d.paid_on,
                     payment_method |-> d.payment_method, note |-> d.note]}

PaymentRequest(status, lead_id, billing_month, amount, d) ==
    [status |-> status, lead_id |-> lead_id, billing_month |-> billing_month,
     amount |-> amount, paid_on |-> d.paid_on,
     payment_method |-> d.payment_method, note |-> d.note]

\* POST /leads/<lead_id>/payments.  The statement raises, and the request
\* ends in a 500, when billing_month or amount is NULL (both NOT NULL) or
\* the lead does not exist (foreign key); the id it drew is not reused.
record_payment(lead_id, billing_month, amount, d) ==
    /\ nextPaymentId <= MaxPayments
    /\ IF ~PaymentPayloadOk(billing_month, amount)
       THEN /\ payResp' = PaymentRequest(400, lead_id, billing_month, amount, d)
            /\ UNCHANGED <<lead_payments, nextPaymentId, recorded>>
       ELSE /\ nextPaymentId' = nextPaymentId + 1
            /\ IF IsNone(billing_month) \/ IsNone(amount)
                  \/ ~LeadExists(lead_id)
               THEN /\ payResp' = PaymentRequest(500, lead_id, billing_month,
                                                 amount, d)
                    /\ UNCHANGED <<lead_payments, recorded>>
               ELSE /\ lead_payments' =
                         UpsertPayment(lead_payments, nextPaymentId, lead_id,
                                       Val(billing_month), Val(amount), d)
                    /\ recorded' =
                         {p \in recorded :
                            ~(p.lead_id = lead_id
                              /\ p.billing_month = billing_month)}
                         \cup {PaymentRequest(200, lead_id, billing_month,
                                              amount, d)}
                    /\ payResp' = PaymentRequest(200, lead_id, billing_month,
                                                 amount, d)
    /\ UNCHANGED <<now, leads, nextLeadId, planVars, invoiceVars, probe,
                   logoVars, zoneVars>>

NextPay ==
    \/ \E phone \in PhoneInputs : create_lead(phone)
    \/ \E lead_id \in PaymentLeadInputs, billing_month \in BillingMonthInputs,
          amount \in AmountInputs, d \in DetailInputs :
            record_payment(lead_id, billing_month, amount, d)

\* The payment ledger: leads are created and payments recorded.
SpecPay == Init /\ [][NextPay]_vars

\* ------------------------------------------------------------ functions
PlanPriceInputs == {0, basic_price, 2500990}
FeeInputs == {0, 10, DEFAULT_SETUP_FEE, 3000500}
RequestedInputs ==
    {None, Some(-1000), Some(-5), Some(0), Some(5), Some(10), Some(1000000),
     Some(DEFAULT_SETUP_FEE), Some(3001000)}

InitPrice ==
    /\ InitStore
    /\ probe \in [fn : {"price"}, plan_price : PlanPriceInputs,
                  fee : FeeInputs, requested : RequestedInputs, out : {None}]

\* The amounts of create_invoice (lines 1305-1319) for the drawn inputs.
apply_price ==
    /\ probe.fn = "price"
    /\ IsNone(probe.out)
    /\ probe' = [probe EXCEPT
                   !.out = Some(Price(probe.plan_price, probe.fee,
                                      probe.requested))]
    /\ UNCHANGED <<now, leads, nextLeadId, planVars, invoiceVars, paymentVars,
                   logoVars, zoneVars>>

\* The pricing of create_invoice as a function of its inputs.
SpecPrice == InitPrice /\ [][apply_price]_vars

ClockInputs == [year : {2025, 2026}, month : 1..12]
\* COUNT(*) around every change of the number of digits of count + 1.
CountInputs == {0, 1, 8, 9, 98, 99, 998, 999, 9998, 9999, 10000}

InitNumber ==
    /\ InitStore
    /\ probe \in [fn : {"number"}, now : ClockInputs, count : CountInputs,
                  out : {None}]

\* next_invoice_number for the drawn clock and COUNT(*).
apply_number ==
    /\ probe.fn = "number"
    /\ IsNone(probe.out)
    /\ probe' = [probe EXCEPT
                   !.out = Some(InvoiceNumberFor(probe.now, probe.count))]
    /\ UNCHANGED <<now, leads, nextLeadId, planVars, invoiceVars, paymentVars,
                   logoVars, zoneVars>>

\* The numbering as a function of the clock and the count.
SpecNumber == InitNumber /\ [][apply_number]_vars

\* The leads table has no DELETE in the program; the schema says what one
\* issued against the store does: invoices and lead_payments of the lead
\* go with it (ON DELETE CASCADE).
delete_lead(id) ==
    /\ LeadExists(id)
    /\ leads' = {l \in leads : l.id # id}
    /\ invoices' = {row \in invoices : row.lead_id # id}
    /\ lead_payments' = {row \in lead_payments : row.lead_id # id}
    /\ UNCHANGED <<now, nextLeadId, planVars, nextInvoiceId, files, documents,
                   issued, req, nextPaymentId, payResp, recorded, probe,
                   logoVars, zoneVars>>

NextDelete ==
    \/ Next
    \/ \E id \in 1..MaxLeads : delete_lead(id)

\* The program together with deletions of leads made directly in the store.
SpecDelete == Init /\ [][NextDelete]_vars

\* ------------------------------------------------------------ faults
\* Mutant of AfterRaise: the statements of the failed request are undone.
AfterRaise_Rollback(rows, number) ==
    {row \in rows : row.invoice_number # number}

\* execute() commits every statement on its own (line 104) and no handler
\* catches: what a request stored before it raised stays stored.
AfterRaise(rows, number) == rows

\* Line 1358 raises (the directory cannot be written, the canvas cannot be
\* saved): the request ends in a 500.  The file may have been created
\* before the failure, or not.
ci_render_raises(r) ==
    /\ req[r].pc = "fetched"
    /\ LET name == PdfName(Val(req[r].generated_at), Val(req[r].lead_id))
       IN  \E left \in BOOLEAN :
             /\ files' = IF left THEN files \cup {name} ELSE files
             /\ documents' =
                  IF left THEN SavePdf(documents, name) ELSE documents
    /\ invoices' = AfterRaise(invoices, Val(req[r].invoice_number))
    /\ req' = [req EXCEPT ![r].pc = "failed", ![r].why = "render"]
    /\ UNCHANGED <<now, leads, nextLeadId, planVars, nextInvoiceId, issued,
                   paymentVars, probe,
                   logoVars, zoneVars>>

\* Lines 1359-1362 raise (the connection is lost): the request ends in a
\* 500 with the document written and pdf_url not set.
ci_update_raises(r) ==
    /\ req[r].pc = "rendered"
    /\ invoices' = AfterRaise(invoices, Val(req[r].invoice_number))
    /\ req' = [req EXCEPT ![r].pc = "failed", ![r].why = "update"]
    /\ UNCHANGED <<now, leads, nextLeadId, planVars, nextInvoiceId, files,
                   documents, issued, paymentVars, probe,
                   logoVars, zoneVars>>

\* Requests that name the first lead and the seeded plan and ask for a
\* discount of half a hundredth.
NextFault ==
    \/ Tick
    \/ \E phone \in PhoneInputs : create_lead(phone)
    \/ \E r \in Requests :
         \/ ci_begin(r, Some(1), Some(1), Some(5))
         \/ ci_price(r)
         \/ ci_allocate(r)
         \/ ci_insert(r)
         \/ ci_fetch(r)
         \/ ci_render(r)
         \/ ci_update_pdf(r)
         \/ ci_render_raises(r)
         \/ ci_update_raises(r)

\* The program with failures of the document rendering and of the pdf_url
\* UPDATE.
SpecFault == Init /\ [][NextFault]_vars

\* GET /invoices without search or date filter: every invoice joined to its
\* lead and its plan, before serialize_invoice_record.
list_invoices ==
    {[id                 |-> row.id,
      invoice_number     |-> row.invoice_number,
      total              |-> row.total,
      generated_at       |-> row.generated_at,
      pdf_url            |-> row.pdf_url,
      setup_fee_amount   |-> row.setup_fee_amount,
      setup_fee_discount |-> row.setup_fee_discount,
      setup_fee_net      |-> row.setup_fee_net,
      subtotal           |-> row.subtotal,
      tax                |-> row.tax,
      lead_phone         |-> l.phone,
      plan_name          |-> p.name,
      plan_price         |-> p.price]
     : <<row, l, p>> \in
         {t \in invoices \X leads \X plans :
            t[2].id = t[1].lead_id /\ t[3].id = t[1].plan_id}}

\* ------------------------------------------------------------ plans
\* What PUT /plans may carry as plans[0].name and plans[0].price.
PlanNameInputs == {None, Some("Pro")}
PayloadPriceInputs == {None, Some(2499000)}

\* The ids of the rows a SELECT ... WHERE name = 'Basic' matches; which one
\* a LIMIT 1 without ORDER BY returns is the server's choice.
BasicIds == {p.id : p \in {q \in plans : q.name = "Basic"}}
SelectBasic == IF BasicIds = {} THEN {None} ELSE {Some(id) : id \in BasicIds}

\* UPDATE plans SET is_active = 0 WHERE id <> %s
DeactivateOthers(rows, id) ==
    {IF p.id # id THEN [p EXCEPT !.is_active = 0] ELSE p : p \in rows}

PlanStep(r, pr) ==
    /\ planReq' = [planReq EXCEPT ![r] = pr]
    /\ UNCHANGED <<now, leads, nextLeadId, invoiceVars, paymentVars, probe,
                   logoVars, zoneVars>>

PlanArrival(r) ==
    /\ planReq[r].pc = "idle"
    /\ \A q \in PlanRequests : q < r => planReq[q].pc # "idle"

\* seed_plans, line 285-286: SELECT id, name FROM plans.
seed_select(r) ==
    /\ planReq[r].pc = "seed_select"
    /\ \E found \in SelectBasic :
         PlanStep(r, [planReq[r] EXCEPT
                        !.basic_plan = found,
                        !.pc = IF IsNone(found) THEN "seed_delete"
                               ELSE "seed_update"])
    /\ UNCHANGED <<plans, nextPlanId>>

\* seed_plans, lines 289-296.
seed_update(r) ==
    /\ planReq[r].pc = "seed_update"
    /\ plans' = {IF p.id = Val(planReq[r].basic_plan)
                 THEN [p EXCEPT !.price = basic_price, !.is_active = 1]
                 ELSE p : p \in plans}
    /\ PlanStep(r, [planReq[r] EXCEPT !.pc = "seed_deactivate"])
    /\ UNCHANGED nextPlanId

\* seed_plans, line 297.
seed_deactivate(r) ==
    /\ planReq[r].pc = "seed_deactivate"
    /\ plans' = DeactivateOthers(plans, Val(planReq[r].basic_plan))
    /\ PlanStep(r, [planReq[r] EXCEPT !.pc = planReq[r].ret])
    /\ UNCHANGED nextPlanId

\* seed_plans, line 299: DELETE FROM plans.  The foreign key of invoices
\* refuses the statement while an invoice names a plan; the request ends in
\* a 500.
seed_delete(r) ==
    /\ planReq[r].pc = "seed_delete"
    /\ IF \E row \in invoices : PlanExists(row.plan_id)
       THEN /\ PlanStep(r, [planReq[r] EXCEPT !.pc = "failed",
                                              !.why = "foreign_key"])
            /\ UNCHANGED plans
       ELSE /\ plans' = {}
            /\ PlanStep(r, [planReq[r] EXCEPT !.pc = "seed_insert"])
    /\ UNCHANGED nextPlanId

\* seed_plans, lines 300-307: INSERT the Basic plan, is_active = 1.
seed_insert(r) ==
    /\ planReq[r].pc = "seed_insert"
    /\ plans' = plans \cup {[id |-> nextPlanId, name |-> "Basic",
                             price |-> basic_price, is_active |-> 1]}
    /\ nextPlanId' = nextPlanId + 1
    /\ PlanStep(r, [planReq[r] EXCEPT !.pc = planReq[r].ret])

\* seed_plans as a sequence of separately committed statements.
seed_plans(r) ==
    \/ seed_select(r)
    \/ seed_update(r)
    \/ seed_deactivate(r)
    \/ seed_delete(r)
    \/ seed_insert(r)

\* initialize_schema of a starting process, line 251.
sp_begin(r) ==
    /\ PlanArrival(r)
    /\ PlanStep(r, [IdlePlanRequest EXCEPT !.kind = "seed_plans",
                                           !.pc = "seed_select",
                                           !.ret = "done"])
    /\ UNCHANGED <<plans, nextPlanId>>

\* update_plans, lines 859-875: the payload, then SELECT id ... 'Basic'.
up_begin(r, name, price) ==
    /\ PlanArrival(r)
    /\ \E found \in SelectBasic :
         PlanStep(r, [IdlePlanRequest EXCEPT
                        !.kind = "update_plans",
                        !.name = IF TruthyText(name) THEN Val(name)
                                 ELSE "Basic",
                        !.price = IF TruthyNumber(price) THEN Val(price)
                                  ELSE basic_price,
                        !.basic = found,
                        !.ret = "up_reselect",
                        !.pc = IF IsNone(found) THEN "seed_select"
                               ELSE "up_update"])
    /\ UNCHANGED <<plans, nextPlanId>>

\* update_plans, line 876: the SELECT again; basic["id"] of no row raises.
up_reselect(r) ==
    /\ planReq[r].pc = "up_reselect"
    /\ \E found \in SelectBasic :
         PlanStep(r, [planReq[r] EXCEPT
                        !.basic = found,
                        !.pc = IF IsNone(found) THEN "failed"
                               ELSE "up_update",
                        !.why = IF IsNone(found) THEN "no_basic" ELSE @])
    /\ UNCHANGED <<plans, nextPlanId>>

\* update_plans, lines 878-886.
up_update(r) ==
    /\ planReq[r].pc = "up_update"
    /\ plans' = {IF p.id = Val(planReq[r].basic)
                 THEN [p EXCEPT !.name = planReq[r].name,
                                !.price = Round2(planReq[r].price),
                                !.is_active = 1]
                 ELSE p : p \in plans}
    /\ PlanStep(r, [planReq[r] EXCEPT !.pc = "up_deactivate"])
    /\ UNCHANGED nextPlanId

\* update_plans, lines 887-889.
up_deactivate(r) ==
    /\ planReq[r].pc = "up_deactivate"
    /\ plans' = DeactivateOthers(plans, Val(planReq[r].basic))
    /\ PlanStep(r, [planReq[r] EXCEPT !.pc = "done"])
    /\ UNCHANGED nextPlanId

update_plans(r) ==
    \/ \E name \in PlanNameInputs, price \in PayloadPriceInputs :
          up_begin(r, name, price)
    \/ up_reselect(r)
    \/ up_update(r)
    \/ up_deactivate(r)

\* list_plans, lines 844-846: the active rows; none calls seed_plans.
lp_begin(r) ==
    /\ PlanArrival(r)
    /\ PlanStep(r, [IdlePlanRequest EXCEPT
                      !.kind = "list_plans",
                      !.ret = "lp_reselect",
                      !.pc = IF \E p \in plans : p.is_active = 1
                             THEN "done" ELSE "seed_select"])
    /\ UNCHANGED <<plans, nextPlanId>>

\* list_plans, lines 847-854: the SELECT again, then the response.
lp_reselect(r) ==
    /\ planReq[r].pc = "lp_reselect"
    /\ PlanStep(r, [planReq[r] EXCEPT !.pc = "done"])
    /\ UNCHANGED <<plans, nextPlanId>>

list_plans(r) == lp_begin(r) \/ lp_reselect(r)

NextPlans ==
    \E r \in PlanRequests :
        \/ sp_begin(r)
        \/ seed_plans(r)
        \/ update_plans(r)
        \/ list_plans(r)

\* The plans table under concurrent plan requests and process starts.
SpecPlans == Init /\ [][NextPlans]_vars

\* ------------------------------------------------------------ rendering again
\* generate_invoice_pdf called once more on a stored invoice whose document
\* create_invoice has attached, with the row as fetch_invoice_details
\* returns it: lines 573-576 name the file after the row's generated_at
\* and lead_id, line 578 opens that path and line 757 writes it.
rerender(number) ==
    /\ \E row \in fetch_invoice_details(number) :
         LET name == PdfName(row.generated_at, row.lead_id)
         IN  /\ ~IsNone(row.pdf_url)
             /\ name \in DOMAIN documents => documents[name] <= MaxRenders
             /\ files' = files \cup {name}
             /\ documents' = SavePdf(documents, name)
    /\ UNCHANGED <<now, leads, nextLeadId, planVars, invoices, nextInvoiceId,
                   issued, req, paymentVars, probe,
                   logoVars, zoneVars>>

NextRender ==
    \/ Tick
    \/ \E phone \in PhoneInputs : create_lead(phone)
    \/ \E r \in Requests :
         \/ ci_begin(r, Some(1), Some(1), None)
         \/ ci_price(r)
         \/ ci_allocate(r)
         \/ ci_insert(r)
         \/ ci_fetch(r)
         \/ ci_render(r)
         \/ ci_update_pdf(r)
    \/ \E row \in invoices : rerender(row.invoice_number)

\* Invoice creation, and documents rendered again later.
SpecRender == Init /\ [][NextRender]_vars

\* ------------------------------------------------------------ cost table
RECURSIVE Group(_)
\* The "," of a format: the digits in groups of three from the right.
Group(s) ==
    IF Len(s) <= 3 THEN s
    ELSE Group(SubSeq(s, 1, Len(s) - 3)) \o <<",">>
           \o SubSeq(s, Len(s) - 2, Len(s))

\* The hundredths ".2f" shows of a Decimal: rounded half to even.
HalfEven(x) ==
    LET q == Abs(x) \div 10
        rest == Abs(x) % 10
    IN  IF rest > 5 \/ (rest = 5 /\ q % 2 = 1) THEN q + 1 ELSE q

\* f"{x:,.2f}"
FormatMoney(x) ==
    LET h == HalfEven(x)
    IN  (IF x < 0 THEN <<"-">> ELSE <<>>)
          \o Group(Decimal(h \div 100)) \o <<".">>
          \o ZeroPad(Decimal(h % 100), 2)

\* Mutant of cost_rows: the discount line whenever the discount is not
\* negative.
cost_rows_ZeroShown(invoice) ==
    <<  << <<"Description">>, <<"Amount (INR)">> >>,
        << <<"Plan - ", invoice.plan_name>>,
           FormatMoney(invoice.plan_price) >>,
        << <<"One-time Setup Fee">>,
           FormatMoney(invoice.setup_fee_amount) >> >>
    \o (IF invoice.setup_fee_discount >= 0
        THEN << << <<"One-time Discount">>,
                   <<"-">> \o FormatMoney(invoice.setup_fee_discount) >> >>
        ELSE <<>>)
    \o << << <<"Subtotal">>, FormatMoney(invoice.subtotal) >>,
          << <<"Grand Total">>, FormatMoney(invoice.total) >> >>

\* Lines 670-689: the rows of the cost table, each a label and a text.
cost_rows(invoice) ==
    <<  << <<"Description">>, <<"Amount (INR)">> >>,
        << <<"Plan - ", invoice.plan_name>>,
           FormatMoney(invoice.plan_price) >>,
        << <<"One-time Setup Fee">>,
           FormatMoney(invoice.setup_fee_amount) >> >>
    \o (IF invoice.setup_fee_discount > 0
        THEN << << <<"One-time Discount">>,
                   <<"-">> \o FormatMoney(invoice.setup_fee_discount) >> >>
        ELSE <<>>)
    \o << << <<"Subtotal">>, FormatMoney(invoice.subtotal) >>,
          << <<"Grand Total">>, FormatMoney(invoice.total) >> >>

\* The invoice generate_invoice_pdf receives from create_invoice: the stored
\* row (lines 1353-1357) with the plan's name and price.
InvoiceDetails(plan_name, plan_price, requested) ==
    LET a == Price(plan_price, DEFAULT_SETUP_FEE, requested)
    IN  [plan_name          |-> plan_name,
         plan_price         |-> plan_price,
         setup_fee_amount   |-> Round2(a.setup_fee_amount),
         setup_fee_discount |-> Round2(a.setup_fee_discount),
         setup_fee_net      |-> Round2(a.setup_fee_net),
         subtotal           |-> Round2(a.subtotal),
         tax                |-> Round2(a.tax),
         total              |-> Round2(a.total)]

\* plans.price: 0.00, 999.90, 1999.00, 1,234,567.89
StoredPriceInputs == {0, 999900, basic_price, 1234567890}

InitCost ==
    /\ InitStore
    /\ probe \in [fn : {"cost"}, plan_name : {"Basic", "Pro"},
                  plan_price : StoredPriceInputs,
                  requested : RequestedInputs, out : {None}]

\* The cost table of the invoice stored for the drawn inputs.
apply_cost ==
    /\ probe.fn = "cost"
    /\ IsNone(probe.out)
    /\ probe' = [probe EXCEPT
                   !.out = Some(cost_rows(InvoiceDetails(
                       probe.plan_name, probe.plan_price,
                       probe.requested)))]
    /\ UNCHANGED <<now, leads, nextLeadId, planVars, invoiceVars,
                   paymentVars,
                   logoVars, zoneVars>>

\* The cost table as a function of the invoice.
SpecCost == InitCost /\ [][apply_cost]_vars

\* ------------------------------------------------------------ document
\* A text is a sequence of characters; an optional text is None or
\* Some(text).  "not text" holds of None and of the empty text.
TruthyChars(o) == ~IsNone(o) /\ Val(o) # <<>>

NA == <<"N", "A">>

RECURSIVE Words(_)
\* text.split(): the runs of characters between blanks.
Words(text) ==
    IF text = <<>> THEN <<>>
    ELSE IF Head(text) = " " THEN Words(Tail(text))
    ELSE LET blanks == {i \in 1..Len(text) : text[i] = " "}
             stop == IF blanks = {} THEN Len(text) + 1
                     ELSE CHOOSE i \in blanks : \A j \in blanks : i <= j
         IN  <<SubSeq(text, 1, stop - 1)>>
               \o Words(SubSeq(text, stop, Len(text)))

RECURSIVE Fill(_, _, _)
\* textwrap.wrap on words no longer than the width: each line takes words,
\* one blank between them, while they fit; no line starts or ends blank.
Fill(words, line, width) ==
    IF words = <<>> THEN (IF line = <<>> THEN <<>> ELSE <<line>>)
    ELSE IF line = <<>> THEN Fill(Tail(words), Head(words), width)
    ELSE IF Len(line) + 1 + Len(Head(words)) <= width
         THEN Fill(Tail(words), line \o <<" ">> \o Head(words), width)
         ELSE <<line>> \o Fill(words, <<>>, width)

\* wrap_text(text, width=70)
wrap_text(text, width) ==
    IF ~TruthyChars(text) THEN <<NA>>
    ELSE LET lines == Fill(Words(Val(text)), <<>>, width)
         IN  IF lines = <<>> THEN <<NA>> ELSE lines

\* "a or b" on optional texts.
OrElse(a, b) == IF TruthyChars(a) THEN a ELSE b

\* Mutant of left_fields: the Client field without its fallback.
left_fields_NameOnly(invoice) ==
    << <<"Client", invoice.lead_name>>,
       <<"Brand", invoice.brand_name>>,
       <<"Email", invoice.lead_email>>,
       <<"Phone", invoice.lead_phone>>,
       <<"Address", invoice.lead_address>> >>

\* Lines 645-651.
left_fields(invoice) ==
    << <<"Client", OrElse(invoice.lead_name, invoice.lead_phone)>>,
       <<"Brand", invoice.brand_name>>,
       <<"Email", invoice.lead_email>>,
       <<"Phone", invoice.lead_phone>>,
       <<"Address", invoice.lead_address>> >>

\* Positions across the page: millimetres plus points from the left edge.
Margin == [mm |-> 20, pt |-> 0]
RightColumn == [mm |-> 121, pt |-> 0]

\* Mutant of text_x: the header text stays right of the logo's place.
text_x_Fixed(neigh_logo) == [mm |-> 52, pt |-> 10]

\* Lines 588-603: margin + logo_size + 10 with a logo, else the margin.
text_x(neigh_logo) ==
    IF ~IsNone(neigh_logo) THEN [mm |-> 52, pt |-> 10] ELSE Margin

\* get_logo_image: the image, or None when the load raised (lines 471-477
\* and 486-493 catch every Exception).
get_logo_image(loads) == IF loads THEN Some("image") ELSE None

Element(what, x, lines) == [what |-> what, x |-> x, lines |-> lines]

\* generate_invoice_pdf, lines 582-761: what is drawn, in order, and the
\* reference returned.
generate_invoice_pdf(invoice, logo_loads, qr_loads) ==
    LET neigh_logo == get_logo_image(logo_loads)
        qr_image == get_logo_image(qr_loads)
        fields == left_fields(invoice)
    IN  [ref |-> Some(PdfName(invoice.generated_at, invoice.lead_id)),
         drawn |->
            (IF ~IsNone(neigh_logo) THEN <<Element("logo", Margin, <<>>)>>
             ELSE <<>>)
            \o <<Element("title", text_x(neigh_logo), <<>>),
                 Element("address", text_x(neigh_logo), <<>>),
                 Element("contact", text_x(neigh_logo), <<>>)>>
            \o [i \in 1..Len(fields) |->
                   Element(fields[i][1], Margin,
                           wrap_text(OrElse(fields[i][2], Some(NA)), 70))]
            \o <<Element("Invoice #", RightColumn, <<>>),
                 Element("Invoice Date", RightColumn, <<>>),
                 Element("Plan", RightColumn, <<>>),
                 Element("cost_table", Margin, <<>>),
                 Element("Payment Details", Margin, <<>>),
                 Element("payment_lines", Margin, <<>>)>>
            \o (IF ~IsNone(qr_image)
                THEN <<Element("qr", Margin, <<>>),
                       Element("qr_caption", Margin, <<>>)>>
                ELSE <<>>)
            \o <<Element("thanks", Margin, <<>>)>>]

\* "Asha K"
ShortText == <<"A", "s", "h", "a", " ", "K">>
\* Twenty times "abc " : eighty characters, two lines of at most seventy.
LongText == [i \in 1..80 |-> IF i % 4 = 0 THEN " " ELSE "a"]

NameInputs == {None, Some(<<>>), Some(ShortText)}
PhoneTextInputs == {None, Some(<<"9", "0", "0", "1">>)}
\* absent, empty, blank, given
EmailInputs == {None, Some(<<>>), Some(<<" ", " ">>), Some(<<"a", "@", "b">>)}
AddressInputs == {None, Some(LongText)}

InitDraw ==
    /\ InitStore
    /\ probe \in [fn : {"draw"}, logo_loads : BOOLEAN, qr_loads : BOOLEAN,
                  lead_name : NameInputs, lead_phone : PhoneTextInputs,
                  lead_email : EmailInputs, brand_name : {None},
                  lead_address : AddressInputs, out : {None}]

\* generate_invoice_pdf for the drawn client and asset outcomes.
apply_draw ==
    /\ probe.fn = "draw"
    /\ IsNone(probe.out)
    /\ probe' = [probe EXCEPT
                   !.out = Some(generate_invoice_pdf(
                       [lead_name |-> probe.lead_name,
                        lead_phone |-> probe.lead_phone,
                        lead_email |-> probe.lead_email,
                        brand_name |-> probe.brand_name,
                        lead_address |-> probe.lead_address,
                        generated_at |-> StartClock, lead_id |-> 1],
                       probe.logo_loads, probe.qr_loads))]
    /\ UNCHANGED <<now, leads, nextLeadId, planVars, invoiceVars,
                   paymentVars,
                   logoVars, zoneVars>>

\* The document as a function of the invoice and of what the asset loads
\* give.
SpecDraw == InitDraw /\ [][apply_draw]_vars

\* ------------------------------------------------------------ wire
RECURSIVE StripZeros(_)
\* The digits after the point as repr() of a float writes them: no zero at
\* the end, one digit at least.
StripZeros(digits) ==
    IF Len(digits) > 1 /\ digits[Len(digits)] = "0"
    THEN StripZeros(SubSeq(digits, 1, Len(digits) - 1)) ELSE digits

\* json.dumps of a float: the shortest decimal text that reads back as the
\* same binary64 value.
FloatRepr(x) ==
    (IF x < 0 THEN <<"-">> ELSE <<>>)
      \o Decimal(Abs(x) \div 1000) \o <<".">>
      \o StripZeros(ZeroPad(Decimal(Abs(x) % 1000), 3))

\* parse_decimal: float(as_decimal(value)), the binary64 value nearest to
\* the decimal one; it is the decimal value itself only for a whole number
\* of eighths.
parse_decimal(x) ==
    [type |-> "float", exact |-> x % 125 = 0, text |-> FloatRepr(x)]

\* serialize_invoice_record, lines 541-553: the numeric fields.
serialize_invoice_record(invoice) ==
    [subtotal           |-> parse_decimal(invoice.subtotal),
     tax                |-> parse_decimal(invoice.tax),
     total              |-> parse_decimal(invoice.total),
     setup_fee_amount   |-> parse_decimal(invoice.setup_fee_amount),
     setup_fee_discount |-> parse_decimal(invoice.setup_fee_discount),
     setup_fee_net      |-> parse_decimal(invoice.setup_fee_net),
     plan_price         |-> parse_decimal(invoice.plan_price)]

\* plans.price, also 250.00, 500.50 and 1999.99
WirePriceInputs == StoredPriceInputs \cup {250000, 500500, 1999990}

InitWire ==
    /\ InitStore
    /\ probe \in [fn : {"wire"}, plan_price : WirePriceInputs,
                  requested : RequestedInputs, out : {None}]

\* The response of create_invoice (line 1365) for the drawn inputs.
apply_wire ==
    /\ probe.fn = "wire"
    /\ IsNone(probe.out)
    /\ probe' = [probe EXCEPT
                   !.out = Some(serialize_invoice_record(InvoiceDetails(
                       "Basic", probe.plan_price, probe.requested)))]
    /\ UNCHANGED <<now, leads, nextLeadId, planVars, invoiceVars,
                   paymentVars,
                   logoVars, zoneVars>>

\* The serialized invoice as a function of the stored one.
SpecWire == InitWire /\ [][apply_wire]_vars

\* ------------------------------------------------------------ all handlers
\* Invoice requests naming the first lead and the seeded plan, a first
\* payment of the lead, a PUT /plans that renames and reprices the plan and
\* a process start, all running together.
NextFrame ==
    \/ \E phone \in PhoneInputs : create_lead(phone)
    \/ \E r \in Requests :
         \/ ci_begin(r, Some(1), Some(1), Some(5))
         \/ ci_price(r)
         \/ ci_allocate(r)
         \/ ci_insert(r)
         \/ ci_fetch(r)
         \/ ci_render(r)
         \/ ci_update_pdf(r)
    \/ /\ lead_payments = {} /\ LeadExists(1)
       /\ record_payment(1, Some("2025-12-01"), Some(500000),
                         [paid_on |-> None, payment_method |-> None,
                          note |-> None])
    \/ up_begin(1, Some("Pro"), Some(2499000))
    \/ up_update(1)
    \/ up_deactivate(1)
    \/ sp_begin(2)
    \/ seed_plans(2)

\* Invoice creation together with the payment and the plans handlers.
SpecFrame == Init /\ [][NextFrame]_vars

\* ------------------------------------------------------------ asset cache
\* What generate_invoice_pdf passes to get_logo_image (lines 582 and 734),
\* and no url at all.
UrlInputs == {None, Some("local_neighshop"), Some("qr_url")}

\* str(NEIGHSHOP_LOGO_PATH.resolve()), the key of the local logo.
LocalKey == "logo.png"

\* LOGO_CACHE.get(key)
CacheGet(cache, key) == IF key \in DOMAIN cache THEN cache[key] ELSE None

\* Mutant of CacheHit: any entry is a hit, a remembered failure too.
CacheHit_AnyEntry(cache, key) == key \in DOMAIN cache

\* Lines 469 and 483: "if cached is not None".
CacheHit(cache, key) == ~IsNone(CacheGet(cache, key))

\* LOGO_CACHE[key] = cached
CachePut(cache, key, cached) ==
    [k \in DOMAIN cache \cup {key} |-> IF k = key THEN cached ELSE cache[k]]

\* Lines 466-470 and 479-484: the key, then the look into the cache.  exists
\* is NEIGHSHOP_LOGO_PATH.exists() at the time of the call.
gl_begin(c, url, exists) ==
    /\ logoCall[c].pc = "idle"
    /\ \A d \in LogoCalls : d < c => logoCall[d].pc # "idle"
    /\ LET local == url = Some("local_neighshop") /\ exists
           key == IF local THEN LocalKey
                  ELSE IF TruthyText(url) THEN Val(url) ELSE ""
       IN  logoCall' = [logoCall EXCEPT ![c] =
               IF ~local /\ ~TruthyText(url)
               THEN [IdleLogoCall EXCEPT !.pc = "done"]
               ELSE IF CacheHit(LOGO_CACHE, key)
               THEN [IdleLogoCall EXCEPT !.pc = "done", !.key = key,
                                         !.ret = CacheGet(LOGO_CACHE, key)]
               ELSE [IdleLogoCall EXCEPT !.pc = "loading", !.key = key]]
    /\ UNCHANGED <<now, leads, nextLeadId, planVars, invoiceVars, paymentVars,
                   probe, LOGO_CACHE, zoneVars>>

\* Lines 471-476 and 485-492: the file is read or the URL fetched, and an
\* ImageReader made of it (a new object with every load, named here after
\* the call that made it); any exception leaves None.
gl_load(c, ok) ==
    /\ logoCall[c].pc = "loading"
    /\ logoCall' = [logoCall EXCEPT
            ![c].pc = "loaded",
            ![c].cached = IF ok THEN Some(c) ELSE None,
            ![c].loads = @ + 1]
    /\ UNCHANGED <<now, leads, nextLeadId, planVars, invoiceVars, paymentVars,
                   probe, LOGO_CACHE, zoneVars>>

\* Lines 477-478 and 493-494: LOGO_CACHE[key] = cached; return cached.
gl_store(c) ==
    /\ logoCall[c].pc = "loaded"
    /\ LOGO_CACHE' = CachePut(LOGO_CACHE, logoCall[c].key, logoCall[c].cached)
    /\ logoCall' = [logoCall EXCEPT ![c].pc = "done",
                                    ![c].ret = logoCall[c].cached]
    /\ UNCHANGED <<now, leads, nextLeadId, planVars, invoiceVars, paymentVars,
                   probe, zoneVars>>

NextLogo ==
    \E c \in LogoCalls :
        \/ \E url \in UrlInputs, exists \in BOOLEAN : gl_begin(c, url, exists)
        \/ \E ok \in BOOLEAN : gl_load(c, ok)
        \/ gl_store(c)

\* get_logo_image called from the threads of one process.
SpecLogo == Init /\ [][NextLogo]_vars

\* ------------------------------------------------------------ dates
\* to_ist_datetime of what the connector returns for a TIMESTAMP, a datetime
\* without tzinfo: line 518 attaches IST to it, the date and the time of
\* day stay as they were read.
to_ist_datetime(value) == [naive |-> value, tzinfo |-> "Asia/Kolkata"]

\* format_invoice_date: strftime("%d %b %Y"), of which the month and the
\* year are kept.
format_invoice_date(value) ==
    LET dt_value == to_ist_datetime(value)
    IN  [year |-> dt_value.naive.year, month |-> dt_value.naive.month]

\* Invoice creation under a clock that moves by seconds, into the last
\* hours of a month and into the next month.
NextClock ==
    \/ Tick
    \/ TickSecond
    \/ \E zone \in SessionZones : Dusk(zone)
    \/ \E phone \in PhoneInputs : create_lead(phone)
    \/ \E r \in Requests :
         \/ ci_begin(r, Some(1), Some(1), None)
         \/ ci_price(r)
         \/ ci_allocate(r)
         \/ ci_insert(r)
         \/ ci_fetch(r)
         \/ ci_render(r)
         \/ ci_update_pdf(r)

SpecClock == Init /\ [][NextClock]_vars

\* ------------------------------------------------------------ claims
\* The request's INSERT stored a row.
Stored(r) ==
    \/ r.pc \in {"inserted", "fetched", "rendered", "done"}
    \/ r.pc = "failed" /\ r.why \in {"not_found", "render", "update"}

\* The request's INSERT was executed, whatever its outcome.
Attempted(r) ==
    Stored(r) \/ (r.pc = "failed" /\ r.why \in {"duplicate", "foreign_key"})

\* C1: under any interleaving of create_invoice requests, whose COUNT and
\* INSERT are separate steps, no two rows of invoices carry the same
\* invoice_number.
C1_UniqueInvoiceNumbers ==
    \A a, b \in invoices : a.invoice_number = b.invoice_number => a = b

\* Two requests read the same count, one stored its row, the other was
\* refused.
C1_Witness ==
    \E r, q \in Requests :
        /\ r # q
        /\ req[r].invoice_number = req[q].invoice_number
        /\ Stored(req[r])
        /\ req[q].pc = "failed" /\ req[q].why = "duplicate"
        /\ \E row \in invoices : Some(row.invoice_number) = req[r].invoice_number

C2_State ==
    /\ \A r \in Requests : req[r].allocations <= 1
    /\ \A r \in Requests :
        Attempted(req[r])
        => Cardinality({q \in Requests :
                          /\ req[q].invoice_number = req[r].invoice_number
                          /\ Stored(req[q])}) = 1
    /\ \A r \in Requests :
        (req[r].pc = "failed" /\ req[r].why = "duplicate")
        => /\ IsNone(req[r].generated_at)
           /\ IsNone(req[r].pdf_url)
           /\ \E q \in Requests :
                /\ q # r
                /\ req[q].invoice_number = req[r].invoice_number
                /\ Stored(req[q])

C2_Step ==
    \A r \in Requests :
        (req[r].pc = "numbered" /\ req'[r].pc \notin {"numbered", "inserted"})
        => /\ req'[r].pc = "failed"
           /\ invoices' = invoices
           /\ files' = files
           /\ req'[r].allocations = req[r].allocations

\* C2: of the requests that hold the same number and have run their INSERT,
\* exactly one stored a row; a refused request ends in an error with the
\* store and the documents as they were, and no request ever runs the
\* allocation a second time.
C2_RefusedInsertEndsRequest == []C2_State /\ [][C2_Step]_vars

\* Two requests held the same number; both ran the INSERT.
C2_Witness ==
    \E r, q \in Requests :
        /\ r # q
        /\ ~IsNone(req[r].invoice_number)
        /\ req[r].invoice_number = req[q].invoice_number
        /\ req[r].pc = "done"
        /\ req[q].pc = "failed" /\ req[q].why = "duplicate"
        /\ Cardinality(invoices) = 1 /\ Cardinality(files) = 1

\* C3 (as claimed): whatever rows were created and deleted, the number
\* next_invoice_number returns was never stored by an INSERT before.
C3_NeverReissued ==
    [][\A r \in Requests :
         req'[r].allocations > req[r].allocations
         => Val(req'[r].invoice_number) \notin issued]_vars

\* C6 (as claimed): every stored row has tax = 0, total = subtotal,
\* subtotal = plan price read by its request + setup_fee_net,
\* setup_fee_net = setup_fee_amount - setup_fee_discount and
\* 0 <= setup_fee_discount <= setup_fee_amount, on the stored values.
C6_StoredAmounts ==
    \A row \in invoices :
        /\ row.tax = 0
        /\ row.total = row.subtotal
        /\ row.setup_fee_net = row.setup_fee_amount - row.setup_fee_discount
        /\ 0 <= row.setup_fee_discount
        /\ row.setup_fee_discount <= row.setup_fee_amount
        /\ \E r \in Requests :
            /\ req[r].invoice_number = Some(row.invoice_number)
            /\ Stored(req[r])
            /\ row.subtotal = Val(req[r].plan_price) + row.setup_fee_net

C10_State ==
    \A r \in Requests :
        /\ req[r].pc = "rejected"
            => /\ req[r].allocations = 0
               /\ IsNone(req[r].invoice_number)
               /\ IsNone(req[r].pdf_url)
        /\ req[r].pc \notin {"idle", "rejected"}
            => /\ ~IsNone(req[r].lead_id) /\ Val(req[r].lead_id) # 0
               /\ ~IsNone(req[r].plan_id) /\ Val(req[r].plan_id) # 0
        /\ req[r].pc \notin {"idle", "rejected", "plan_read"}
            => /\ \E l \in leads : l.id = Val(req[r].lead_id)
               /\ \E p \in plans : p.id = Val(req[r].plan_id)

C10_Step ==
    \A r \in Requests :
        (req[r].pc # "rejected" /\ req'[r].pc = "rejected")
        => /\ invoices' = invoices
           /\ files' = files
           /\ next_invoice_number(invoices', now')
                = next_invoice_number(invoices, now)

\* C10: a request whose lead_id or plan_id is missing or names no row is
\* rejected with no allocation made, and its rejection changes neither the
\* invoices, nor the documents, nor the number the next allocation returns;
\* only requests naming an existing lead and plan get past the validation.
C10_RejectedBeforeNumbering == []C10_State /\ [][C10_Step]_vars

\* A request naming an unknown lead or plan was rejected while an invoice
\* is stored.
C10_Witness ==
    \E r \in Requests :
        /\ req[r].pc = "rejected" /\ req[r].why = "invalid"
        /\ invoices # {}

\* ---- numbering, read back from the text
DigitValue(c) ==
    CASE c = "0" -> 0 [] c = "1" -> 1 [] c = "2" -> 2 [] c = "3" -> 3
      [] c = "4" -> 4 [] c = "5" -> 5 [] c = "6" -> 6 [] c = "7" -> 7
      [] c = "8" -> 8 [] c = "9" -> 9 [] OTHER -> -1

AllDigits(s) == \A i \in 1..Len(s) : DigitValue(s[i]) >= 0

RECURSIVE NumberOf(_)
\* The number a text of decimal digits writes.
NumberOf(s) ==
    IF Len(s) = 0 THEN 0
    ELSE NumberOf(SubSeq(s, 1, Len(s) - 1)) * 10 + DigitValue(s[Len(s)])

\* The text begins with INV, the 4-digit year and the 2-digit month.
HasMonthPrefix(s, clock) ==
    /\ Len(s) >= 9
    /\ SubSeq(s, 1, 3) = <<"I", "N", "V">>
    /\ AllDigits(SubSeq(s, 4, 9))
    /\ NumberOf(SubSeq(s, 4, 7)) = clock.year
    /\ NumberOf(SubSeq(s, 8, 9)) = clock.month

Numbered == probe.fn = "number" /\ ~IsNone(probe.out)

\* C4 (as claimed): the number returned, for any count of invoices stored in
\* the month, is INV, the 4-digit year, the 2-digit month and exactly 4
\* decimal digits.
C4_ExactlyFourDigits ==
    Numbered =>
        /\ HasMonthPrefix(Val(probe.out), probe.now)
        /\ Len(Val(probe.out)) = 13
        /\ AllDigits(SubSeq(Val(probe.out), 10, 13))

\* C4 (amended): the number returned is INV, the 4-digit year, the 2-digit
\* month and the decimal digits of count + 1, zero-padded to at least 4
\* digits: exactly 4 while the month holds fewer than 9999 invoices, more
\* from then on.
C4_AtLeastFourDigits ==
    Numbered =>
        LET s   == Val(probe.out)
            seq == SubSeq(s, 10, Len(s))
        IN  /\ HasMonthPrefix(s, probe.now)
            /\ AllDigits(seq)
            /\ NumberOf(seq) = probe.count + 1
            /\ Len(seq) >= 4
            /\ (Len(seq) = 4) <=> (probe.count < 9999)
            /\ Len(seq) > 4 => seq[1] # "0"

\* The 10000th invoice of a month is numbered.
C4_Witness ==
    /\ Numbered
    /\ probe.count = 9999
    /\ Len(Val(probe.out)) = 14

\* ---- pricing
Min(a, b) == IF a < b THEN a ELSE b
Max(a, b) == IF a > b THEN a ELSE b

Priced == probe.fn = "price" /\ ~IsNone(probe.out)

\* C5: for every plan price, setup fee >= 0 and requested discount,
\* setup_fee_discount = max(0, min(requested, fee)), an absent request
\* counting as 0, and setup_fee_net = fee - setup_fee_discount, hence
\* 0 <= setup_fee_discount <= fee and setup_fee_net >= 0.
C5_DiscountClamped ==
    Priced =>
        LET out == Val(probe.out)
            requested == IF IsNone(probe.requested) THEN 0
                         ELSE Val(probe.requested)
        IN  /\ out.setup_fee_discount = Max(0, Min(requested, probe.fee))
            /\ out.setup_fee_net = probe.fee - out.setup_fee_discount
            /\ 0 <= out.setup_fee_discount
            /\ out.setup_fee_discount <= probe.fee
            /\ out.setup_fee_net >= 0

\* A discount above the fee was priced, and one below zero.
C5_Witness ==
    /\ Priced
    /\ ~IsNone(probe.requested)
    /\ Val(probe.requested) > probe.fee
    /\ probe.fee > 0
    /\ Val(probe.out).setup_fee_discount = probe.fee
    /\ Val(probe.out).setup_fee_net = 0

\* ---- payments
\* C7: lead_payments holds at most one row per (lead, billing month), and
\* the row's amount is the amount of the last recording applied for the
\* pair, as its DECIMAL(10,2) column keeps it; never a sum.
C7_OneRowPerLeadMonth ==
    /\ \A a, b \in lead_payments :
         (a.lead_id = b.lead_id /\ a.billing_month = b.billing_month)
         => a = b
    /\ \A row \in lead_payments :
         \E p \in recorded :
            /\ p.lead_id = row.lead_id
            /\ p.billing_month = Some(row.billing_month)
            /\ row.amount = Round2(Val(p.amount))
    /\ \A p \in recorded :
         \E row \in lead_payments :
            /\ p.lead_id = row.lead_id
            /\ p.billing_month = Some(row.billing_month)

\* 500.00 was recorded first and 750.005 second for the same pair: one row,
\* holding 750.01.
C7_Witness ==
    /\ nextPaymentId = 3
    /\ payResp.status = 200
    /\ payResp.amount = Some(750005)
    /\ \E row \in lead_payments :
         /\ lead_payments = {row}
         /\ row.id = 1
         /\ row.amount = 750010

C8_Step ==
    (nextPaymentId' # nextPaymentId /\ payResp'.status = 200) =>
        LET lead_id == payResp'.lead_id
            month   == Val(payResp'.billing_month)
            old == {row \in lead_payments : SamePair(row, lead_id, month)}
            new == {row \in lead_payments' : SamePair(row, lead_id, month)}
        IN  /\ Cardinality(new) = 1
            /\ \A n \in new :
                 /\ n.amount = Round2(Val(payResp'.amount))
                 /\ n.paid_on = payResp'.paid_on
                 /\ n.payment_method = payResp'.payment_method
                 /\ n.note = payResp'.note
                 /\ \A o \in old :
                      /\ n.id = o.id
                      /\ n.lead_id = o.lead_id
                      /\ n.billing_month = o.billing_month
                      /\ n.invoice_id = o.invoice_id
            /\ Cardinality(lead_payments') =
                 Cardinality(lead_payments) + (IF old = {} THEN 1 ELSE 0)
            /\ lead_payments' \ new = lead_payments \ old

\* C8: a recording for a pair that has a row replaces amount, paid_on,
\* payment_method and note by the request's values, an omitted one becoming
\* null, and leaves id, lead_id, billing_month and invoice_id as they were;
\* for a pair without a row it inserts exactly one row; all other rows stay.
C8_UpsertOverwrites == [][C8_Step]_vars

\* The row of a pair was recorded again by a request that omits paid_on,
\* payment_method and note: they are null, the id is the first one.
C8_Witness ==
    /\ nextPaymentId = 3
    /\ payResp.status = 200
    /\ IsNone(payResp.paid_on)
    /\ \E row \in lead_payments :
         /\ lead_payments = {row}
         /\ row.id = 1
         /\ IsNone(row.paid_on) /\ IsNone(row.payment_method)
         /\ IsNone(row.note)

C9_State ==
    (payResp.status # 0
       /\ (IsNone(payResp.billing_month) \/ IsNone(payResp.amount)))
    => payResp.status = 400

C9_Step ==
    (payResp'.status = 400 /\ payResp' # payResp)
    => /\ lead_payments' = lead_payments
       /\ nextPaymentId' = nextPaymentId

\* C9: a record_payment request without billing month or without amount is
\* answered 400 and its handling leaves lead_payments as it was.
C9_MissingFieldRejected == []C9_State /\ [][C9_Step]_vars

\* A request without amount was rejected while a payment row exists.
C9_Witness ==
    /\ payResp.status = 400
    /\ IsNone(payResp.amount)
    /\ ~IsNone(payResp.billing_month)
    /\ lead_payments # {}

\* ---- partial completion
\* The clock an invoice number was allocated under, read from its text.
ClockOf(number) ==
    [year  |-> NumberOf(SubSeq(number, 4, 7)),
     month |-> NumberOf(SubSeq(number, 8, 9))]

AfterInsertFailure(r) == r.pc = "failed" /\ r.why \in {"render", "update"}

\* C11: a create_invoice request that failed after its INSERT and before
\* its pdf_url UPDATE leaves its row stored with the number and the amounts
\* it inserted and a null pdf_url; fetch_invoice_details and list_invoices
\* return the row, and next_invoice_number counts it.
C11_RowKeptWithoutDocument ==
    \A r \in Requests :
        AfterInsertFailure(req[r]) =>
            LET number == Val(req[r].invoice_number)
            IN  /\ \E row \in invoices :
                     /\ row.invoice_number = number
                     /\ IsNone(row.pdf_url)
                     /\ row.lead_id = Val(req[r].lead_id)
                     /\ row.plan_id = Val(req[r].plan_id)
                     /\ row.subtotal = Round2(req[r].amounts.subtotal)
                     /\ row.total = Round2(req[r].amounts.total)
                     /\ row.tax = 0
                     /\ row.setup_fee_amount = DEFAULT_SETUP_FEE
                     /\ row.setup_fee_discount
                          = Round2(req[r].amounts.setup_fee_discount)
                     /\ row.setup_fee_net
                          = Round2(req[r].amounts.setup_fee_net)
                     /\ row \in fetch_invoice_details(number)
                     /\ next_invoice_number(invoices, ClockOf(number))
                          # next_invoice_number(invoices \ {row},
                                                ClockOf(number))
                /\ \E e \in list_invoices :
                     e.invoice_number = number /\ IsNone(e.pdf_url)
                /\ Cardinality({e \in list_invoices :
                                  e.invoice_number = number}) = 1

\* One request failed in the rendering and one in the pdf_url UPDATE; both
\* rows are stored.
C11_Witness ==
    /\ \E r \in Requests : req[r].pc = "failed" /\ req[r].why = "render"
    /\ \E r \in Requests : req[r].pc = "failed" /\ req[r].why = "update"
    /\ Cardinality(invoices) = 2
    /\ files # {}

\* ---- plans
\* C17 (as claimed): after the startup seeding, whatever update_plans,
\* list_plans and seed_plans executions run and however their statements
\* interleave, exactly one row of plans has is_active = 1.
C17_ExactlyOneActive ==
    Cardinality({p \in plans : p.is_active = 1}) = 1

\* ---- immutability
\* The two rows agree on every column but pdf_url.
SameButPdf(a, b) == [a EXCEPT !.pdf_url = None] = [b EXCEPT !.pdf_url = None]

C12_Step ==
    \A row \in invoices :
        \E kept \in invoices' :
            /\ kept.id = row.id
            /\ SameButPdf(kept, row)
            /\ kept.pdf_url # row.pdf_url
                => \E r \in Requests :
                     /\ req[r].pc = "rendered" /\ req'[r].pc = "done"
                     /\ Stored(req[r])
                     /\ req[r].invoice_number = Some(row.invoice_number)
                     /\ kept.pdf_url = req[r].pdf_url

\* C12: no step of create_invoice, record_payment, update_plans or
\* seed_plans removes an invoice row or changes its id, lead_id, plan_id,
\* invoice_number, amounts, generated_at or notes; pdf_url changes only in
\* the UPDATE of the request that stored the row.
C12_OnlyPdfUrlChanges == [][C12_Step]_vars

\* Two invoices are stored, one with its document attached and one without,
\* after a payment was recorded and the plan renamed and repriced.
C12_Witness ==
    /\ \E a, b \in invoices : ~IsNone(a.pdf_url) /\ IsNone(b.pdf_url)
    /\ lead_payments # {}
    /\ \E p \in plans : p.name = "Pro" /\ p.price # basic_price

\* ---- rendering again
\* A step that writes a document outside create_invoice.
RenderedAgain == documents' # documents /\ req' = req

\* C13 (amended): a second generate_invoice_pdf on the same invoice writes
\* the file of the first once more, under the same name (the row's
\* generated_at and lead_id, not the time of the rendering): no file is
\* added, none is removed, and no other file is written.
C13_SameFileRewritten ==
    [][RenderedAgain =>
         /\ files' = files
         /\ DOMAIN documents' = DOMAIN documents
         /\ \E name \in files :
              /\ documents'[name] = documents[name] + 1
              /\ \A other \in files \ {name} :
                   documents'[other] = documents[other]]_vars

\* The one document of the store was written by create_invoice in one
\* month and once more in the next.
C13_Witness ==
    /\ Cardinality(invoices) = 1
    /\ \E name \in files :
         /\ files = {name}
         /\ documents[name] = 2
         /\ name.ts # now

\* C13 (as claimed): a second generate_invoice_pdf on the same invoice
\* writes a file under a name no file had, and every file written before
\* is still there, not written again: the documents accumulate.
C13_NewFileEachRender ==
    [][RenderedAgain =>
         /\ Cardinality(files') = Cardinality(files) + 1
         /\ \A name \in files :
              name \in files' /\ documents'[name] = documents[name]]_vars

\* ---- cost table
\* The amount a text of digits, "," and "." writes, in thousandths.
ParseMoney(text) ==
    NumberOf(SelectSeq(text, LAMBDA c : c \notin {",", "."})) * 10

\* The text is digits in groups of three, a point and two digits.
MoneyText(text) ==
    /\ Len(text) >= 4
    /\ text[Len(text) - 2] = "."
    /\ \A i \in 1..Len(text) :
         i # Len(text) - 2 =>
            IF i < Len(text) - 2 /\ (Len(text) - 2 - i) % 4 = 0
            THEN text[i] = "," ELSE DigitValue(text[i]) >= 0
    /\ text[1] # ","

Costed == probe.fn = "cost" /\ ~IsNone(probe.out)

\* C14: the cost table is the header, the plan line, the setup-fee line,
\* the discount line if and only if the invoice's setup_fee_discount is
\* above zero, the subtotal and the grand total, in this order; the
\* discount line shows a minus sign and the discount.
C14_CostRows ==
    Costed =>
        LET rows == Val(probe.out)
            inv == InvoiceDetails(probe.plan_name, probe.plan_price,
                                  probe.requested)
            n == Len(rows)
            discounted == inv.setup_fee_discount > 0
        IN  /\ n = IF discounted THEN 6 ELSE 5
            /\ rows[1] = << <<"Description">>, <<"Amount (INR)">> >>
            /\ rows[2][1] = <<"Plan - ", probe.plan_name>>
            /\ rows[3][1] = <<"One-time Setup Fee">>
            /\ rows[n - 1][1] = <<"Subtotal">>
            /\ rows[n][1] = <<"Grand Total">>
            /\ (\E i \in 1..n : rows[i][1] = <<"One-time Discount">>)
                 <=> discounted
            /\ discounted =>
                 /\ rows[4][1] = <<"One-time Discount">>
                 /\ Head(rows[4][2]) = "-"
                 /\ MoneyText(Tail(rows[4][2]))
                 /\ ParseMoney(Tail(rows[4][2])) = inv.setup_fee_discount
            /\ MoneyText(rows[2][2])
            /\ ParseMoney(rows[2][2]) = inv.plan_price
            /\ ParseMoney(rows[3][2]) = inv.setup_fee_amount
            /\ ParseMoney(rows[n - 1][2]) = inv.subtotal
            /\ ParseMoney(rows[n][2]) = inv.total

\* A table with the discount line "-0.01" under a plan line of
\* 1,234,567.89.
C14_Witness ==
    /\ Costed
    /\ Len(Val(probe.out)) = 6
    /\ Val(probe.out)[4][2] = <<"-", "0", ".", "0", "1">>
    /\ Val(probe.out)[2][2]
         = <<"1", ",", "2", "3", "4", ",", "5", "6", "7", ".", "8", "9">>

\* ---- document
Drew == probe.fn = "draw" /\ ~IsNone(probe.out)

\* Every text the document carries, by what it is.
TextElements ==
    {"title", "address", "contact", "Client", "Brand", "Email", "Phone",
     "Address", "Invoice #", "Invoice Date", "Plan", "cost_table",
     "Payment Details", "payment_lines", "thanks"}

HeaderElements == {"title", "address", "contact"}

WhatDrawn(out) == {out.drawn[i].what : i \in 1..Len(out.drawn)}

\* C15: whatever the asset loads give, generate_invoice_pdf returns its
\* reference with every text element drawn once; without the logo the
\* header text is at the margin (right of the logo otherwise), and without
\* the QR image exactly the image and its caption are missing.
C15_AssetFailureIsSoft ==
    Drew =>
        LET out == Val(probe.out)
            n == Len(out.drawn)
        IN  /\ ~IsNone(out.ref)
            /\ TextElements \subseteq WhatDrawn(out)
            /\ n = Cardinality(WhatDrawn(out))
            /\ WhatDrawn(out) \ TextElements
                 = (IF probe.logo_loads THEN {"logo"} ELSE {})
                   \cup (IF probe.qr_loads THEN {"qr", "qr_caption"}
                         ELSE {})
            /\ \A i \in 1..n :
                 out.drawn[i].what \in HeaderElements
                 => (out.drawn[i].x = Margin <=> ~probe.logo_loads)
            /\ \A i \in 1..n :
                 out.drawn[i].what \in TextElements \ HeaderElements
                 => out.drawn[i].x \in {Margin, RightColumn}

\* A document drawn with neither the logo nor the QR image.
C15_Witness ==
    /\ Drew
    /\ ~probe.logo_loads /\ ~probe.qr_loads
    /\ Len(Val(probe.out).drawn) = Cardinality(TextElements)
    /\ Val(probe.out).drawn[1].what = "title"
    /\ Val(probe.out).drawn[1].x = Margin

\* The lines drawn for a field of the client column.
FieldLines(out, label) ==
    LET i == CHOOSE j \in 1..Len(out.drawn) : out.drawn[j].what = label
    IN  out.drawn[i].lines

RECURSIVE Shown(_)
\* The words a field shows, over all its lines.
Shown(lines) ==
    IF lines = <<>> THEN <<>> ELSE Words(Head(lines)) \o Shown(Tail(lines))

\* The field shows the value, or NA for a value absent or empty; no line of
\* it is empty.
ShowsOrNA(lines, value) ==
    /\ lines # <<>>
    /\ \A i \in 1..Len(lines) : lines[i] # <<>> /\ Words(lines[i]) # <<>>
    /\ ~TruthyChars(value) => lines = <<NA>>
    /\ (TruthyChars(value) /\ Words(Val(value)) # <<>>)
        => Shown(lines) = Words(Val(value))

\* C16: each of Client, Brand, Email, Phone and Address shows NA when its
\* value is absent or empty and its value otherwise, never an empty line;
\* Client shows the name, the phone when there is no name, NA when there
\* is neither.
C16_PlaceholderNA ==
    Drew =>
        LET out == Val(probe.out)
        IN  /\ ShowsOrNA(FieldLines(out, "Brand"), probe.brand_name)
            /\ ShowsOrNA(FieldLines(out, "Email"), probe.lead_email)
            /\ ShowsOrNA(FieldLines(out, "Phone"), probe.lead_phone)
            /\ ShowsOrNA(FieldLines(out, "Address"), probe.lead_address)
            /\ ShowsOrNA(FieldLines(out, "Client"),
                         IF TruthyChars(probe.lead_name)
                         THEN probe.lead_name ELSE probe.lead_phone)

\* A client without name and email, with a phone and an address of two
\* lines: Client shows the phone, Email shows NA.
C16_Witness ==
    /\ Drew
    /\ IsNone(probe.lead_name) /\ IsNone(probe.lead_email)
    /\ ~IsNone(probe.lead_phone) /\ ~IsNone(probe.lead_address)
    /\ FieldLines(Val(probe.out), "Client") = <<Val(probe.lead_phone)>>
    /\ FieldLines(Val(probe.out), "Email") = <<NA>>
    /\ Len(FieldLines(Val(probe.out), "Address")) = 2

\* ---- wire
Wired == probe.fn = "wire" /\ ~IsNone(probe.out)

NumericFields ==
    {"subtotal", "tax", "total", "setup_fee_amount", "setup_fee_discount",
     "setup_fee_net", "plan_price"}

\* C18 (as claimed): every amount of the stored invoice is a whole number
\* of hundredths, and every amount serialize_invoice_record returns is a
\* decimal value, not a binary float, written with two fractional digits
\* and equal to the stored one.
C18_DecimalOnTheWire ==
    Wired =>
        LET inv == InvoiceDetails("Basic", probe.plan_price, probe.requested)
            out == Val(probe.out)
        IN  \A f \in NumericFields :
                /\ inv[f] % 10 = 0
                /\ out[f].type = "Decimal"
                /\ out[f].exact
                /\ MoneyText(out[f].text)
                /\ ParseMoney(out[f].text) = inv[f]

\* ---- allocation
C19_Step ==
    \A r \in Requests :
        req'[r].allocations > req[r].allocations =>
            LET number == Val(req'[r].invoice_number)
                seq == SubSeq(number, 10, Len(number))
                count == Cardinality({row \in invoices :
                            HasMonthPrefix(row.invoice_number, now)})
            IN  /\ HasMonthPrefix(number, now)
                /\ AllDigits(seq)
                /\ NumberOf(seq) = count + 1
                /\ invoices' = invoices
                /\ nextInvoiceId' = nextInvoiceId
                /\ issued' = issued
                /\ next_invoice_number(invoices', now') = number

\* C19: next_invoice_number returns the prefix of the current UTC month
\* followed by count + 1, count being the rows of invoices whose number
\* carries that prefix, rows of other months not counted; it changes
\* nothing in the store, so the same call made again returns the same
\* number.
C19_CountPlusOne == [][C19_Step]_vars

\* With one invoice of December stored, an allocation of January returned
\* INV2026010001.
C19_Witness ==
    /\ now = [year |-> 2026, month |-> 1]
    /\ \E row \in invoices :
         HasMonthPrefix(row.invoice_number, StartClock)
    /\ \E r \in Requests :
         /\ req[r].pc = "numbered"
         /\ HasMonthPrefix(Val(req[r].invoice_number), now)
         /\ NumberOf(SubSeq(Val(req[r].invoice_number), 10, 13)) = 1

\* ---- order of the steps
\* How far a request has come: 1 the plan read, 2 the amounts computed,
\* 3 the number allocated, 4 the row inserted, 5 the row re-read, 6 the
\* document rendered, 7 the pdf_url updated.
Position(pc) ==
    CASE pc = "idle"      -> 0
      [] pc = "plan_read" -> 1
      [] pc = "priced"    -> 2
      [] pc = "numbered"  -> 3
      [] pc = "inserted"  -> 4
      [] pc = "fetched"   -> 5
      [] pc = "rendered"  -> 6
      [] pc = "done"      -> 7
      [] OTHER            -> 8

\* The row stored under the number the request holds (its own row once
\* its INSERT was accepted).
RowOf(rows, r) == {row \in rows : Some(row.invoice_number) = r.invoice_number}

C20_Order ==
    \A r \in Requests :
        LET was == req[r]
            is == req'[r]
        IN  /\ is.pc # was.pc =>
                 /\ Position(was.pc) < 8
                 /\ Position(is.pc) \in {Position(was.pc) + 1, 8}
            /\ Position(is.pc) \in 2..7 => ~IsNone(is.amounts)
            /\ Position(is.pc) \in 3..7 => ~IsNone(is.invoice_number)
            /\ Position(is.pc) \in 4..7 => RowOf(invoices', is) # {}
            /\ Position(is.pc) \in 5..7 =>
                 \E row \in RowOf(invoices', is) :
                     is.generated_at = Some(row.generated_at)
            /\ Position(is.pc) \in 6..7 =>
                 /\ ~IsNone(is.pdf_url)
                 /\ Val(is.pdf_url) \in files'
                 /\ documents'[Val(is.pdf_url)] >= 1
            /\ Position(is.pc) \in 4..6 =>
                 \A row \in RowOf(invoices', is) : IsNone(row.pdf_url)
            /\ Position(is.pc) = 7 =>
                 \E row \in RowOf(invoices', is) : row.pdf_url = is.pdf_url

C20_Effects ==
    /\ \A row \in invoices' \ invoices :
         \/ \E r \in Requests :
              /\ Position(req[r].pc) = 3 /\ Position(req'[r].pc) = 4
              /\ row \in RowOf(invoices', req[r])
              /\ IsNone(row.pdf_url)
         \/ \E old \in invoices :
              /\ SameButPdf(old, row)
              /\ IsNone(old.pdf_url)
              /\ Val(row.pdf_url) \in files
              /\ \E r \in Requests :
                   /\ Position(req[r].pc) = 6 /\ Position(req'[r].pc) = 7
                   /\ old \in RowOf(invoices, req[r])
    /\ documents' # documents =>
         \E r \in Requests, row \in invoices :
             /\ Position(req[r].pc) = 5
             /\ row \in RowOf(invoices, req[r])
             /\ \A n \in DOMAIN documents' :
                  (n \notin DOMAIN documents \/ documents'[n] # documents[n])
                      => n = PdfName(row.generated_at, row.lead_id)

C20_Stored ==
    /\ \A row \in invoices :
         ~IsNone(row.pdf_url) =>
             /\ Val(row.pdf_url) \in files
             /\ Val(row.pdf_url) = PdfName(row.generated_at, row.lead_id)
    /\ \A name \in files :
         \E row \in invoices :
             name = PdfName(row.generated_at, row.lead_id)

\* C20: every create_invoice request goes through its steps in the order
\* amounts, number, INSERT, re-read, rendering, pdf_url UPDATE, leaving the
\* order only by ending in an error; so a row has a pdf_url only when the
\* file of that name is written, and a file is written only for a row that
\* is stored.
C20_StepsInOrder == [][C20_Order /\ C20_Effects /\ C20_Stored']_vars

\* One request went through all six steps and its row names a written file,
\* while another is between its re-read and its rendering, its row stored
\* without a document.
C20_Witness ==
    \E a, b \in Requests :
        /\ req[a].pc = "done"
        /\ \E row \in RowOf(invoices, req[a]) :
             ~IsNone(row.pdf_url) /\ Val(row.pdf_url) \in files
        /\ req[b].pc = "fetched"
        /\ \E row \in RowOf(invoices, req[b]) :
             /\ IsNone(row.pdf_url)
             /\ PdfName(row.generated_at, row.lead_id) \notin files

\* ---- asset cache
\* C21 (as claimed): once LOGO_CACHE holds an image for a key, the entry
\* of that key never changes, and a call that starts on that key returns
\* the image of the entry without a load, however the calls interleave.
C21_CacheEntryFixed ==
    [][/\ \A key \in DOMAIN LOGO_CACHE :
            ~IsNone(LOGO_CACHE[key]) =>
                /\ key \in DOMAIN LOGO_CACHE'
                /\ LOGO_CACHE'[key] = LOGO_CACHE[key]
       /\ \A c \in LogoCalls :
            /\ logoCall[c].pc = "idle"
            /\ logoCall'[c].pc # "idle"
            /\ CacheHit(LOGO_CACHE, logoCall'[c].key)
            => /\ logoCall'[c].pc = "done"
               /\ logoCall'[c].ret = LOGO_CACHE[logoCall'[c].key]
               /\ logoCall'[c].loads = 0]_vars

\* No call is between its look into the cache and its store for key.
NoneInFlight(key) ==
    \A d \in LogoCalls :
        logoCall[d].key = key => logoCall[d].pc \notin {"loading", "loaded"}

\* The entry of key is image.
Cached(key, image) ==
    key \in DOMAIN LOGO_CACHE /\ LOGO_CACHE[key] = Some(image)

C25_Step ==
    \A c \in LogoCalls :
        LET was == logoCall[c]
            is == logoCall'[c]
        IN  /\ (/\ was.pc = "idle" /\ is.pc # "idle"
                /\ is.key \in DOMAIN LOGO_CACHE
                /\ IsNone(LOGO_CACHE[is.key]))
                   => is.pc = "loading"
            /\ (was.pc = "loading" /\ is.pc = "loaded")
                   => is.loads = was.loads + 1
            /\ (was.pc = "loaded" /\ is.pc = "done" /\ ~IsNone(was.cached))
                   => /\ is.ret = was.cached
                      /\ LOGO_CACHE'[was.key] = was.cached
            /\ (/\ was.pc = "idle" /\ is.pc # "idle"
                /\ is.key \in DOMAIN LOGO_CACHE
                /\ ~IsNone(LOGO_CACHE[is.key]))
                   => /\ is.pc = "done"
                      /\ is.ret = LOGO_CACHE[is.key]
                      /\ is.loads = 0
                      /\ LOGO_CACHE' = LOGO_CACHE

\* C25: a call of get_logo_image on a key whose entry is None, left by a
\* failed load, loads again; a load that succeeds is returned and stored
\* under the key, and from then on the calls that follow return the stored
\* image without loading, the entry staying as it is.
C25_FailureNotRemembered ==
    /\ [][C25_Step]_vars
    /\ \A key \in {LocalKey, "local_neighshop", "qr_url"}, c \in LogoCalls :
         [](Cached(key, c) /\ NoneInFlight(key) => []Cached(key, c))

\* On one key a first call failed, a second loaded the image, and a third
\* was given the image of the second without a load.
C25_Witness ==
    \E a, b, c \in LogoCalls :
        /\ a < b /\ b < c
        /\ logoCall[a].key = logoCall[b].key
        /\ logoCall[b].key = logoCall[c].key
        /\ logoCall[a].pc = "done" /\ logoCall[b].pc = "done"
        /\ logoCall[c].pc = "done"
        /\ IsNone(logoCall[a].ret) /\ logoCall[a].loads = 1
        /\ logoCall[b].ret = Some(b) /\ logoCall[b].loads = 1
        /\ logoCall[c].ret = Some(b) /\ logoCall[c].loads = 0
        /\ LOGO_CACHE[logoCall[c].key] = Some(b)

\* ---- dates
\* The month of the civil date (Asia/Kolkata) at an instant of the UTC
\* clock.
CivilMonth(clock, time) == IF time.late THEN NextMonth(clock) ELSE clock

\* C22 (as claimed): the prefix of an allocated number carries the UTC
\* month of the clock at the allocation, and the invoice date drawn on the
\* document of an invoice is the civil date, in Asia/Kolkata, of the
\* instant its row was stored at, also in the hours when the two months
\* differ.
C22_UtcPrefixCivilDate ==
    [][/\ \A r \in Requests :
            req'[r].allocations > req[r].allocations
                => HasMonthPrefix(Val(req'[r].invoice_number), now)
       /\ \A row \in invoices' :
            row.id \notin {old.id : old \in invoices}
                => format_invoice_date(row.generated_at)
                     = CivilMonth(now, tod)]_vars

\* ---- one document per invoice
\* C23 (as claimed): two invoice rows with a pdf_url never carry the same
\* pdf_url, and no document file is written for a second invoice.
C23_OwnDocument ==
    /\ \A a, b \in invoices :
         (a.id # b.id /\ ~IsNone(a.pdf_url) /\ ~IsNone(b.pdf_url))
             => a.pdf_url # b.pdf_url
    /\ \A name \in DOMAIN documents : documents[name] <= 1

\* ---- listed plan price
\* C24 (as claimed): every invoice list_invoices returns has
\* subtotal = plan_price + setup_fee_net, also after update_plans changed
\* the price of its plan.
C24_ListedPriceAddsUp ==
    \A e \in list_invoices : e.subtotal = e.plan_price + e.setup_fee_net

====
